---- MODULE Spec2Model ----
(***************************************************************************)
(* reqwest-streams: the framing decoders (JsonArrayCodec,                  *)
(* ProtobufLenPrefixCodec, ArrowIpcCodec, tokio_util's LinesCodec as the   *)
(* JSON-Lines and CSV streams use it) driven by tokio_util's FramedRead,   *)
(* which the *_stream methods of reqwest::Response build.                  *)
(*                                                                         *)
(* A byte is a number 0..255.  The transport delivers `input` in chunks of *)
(* any size; FramedRead appends each chunk to `buffer` and calls the       *)
(* codec's decode / decode_eof.  `out` is the item sequence the consumer   *)
(* of the stream has received.                                             *)
(***************************************************************************)
EXTENDS Integers, Sequences, FiniteSets, TLC

VARIABLES
    format,        \* which *_stream method built the stream
    with_csv_header, \* csv_stream: with_csv_header (FALSE for the other streams)
    input,         \* the bytes of the response body
    sent,          \* the records the server encoded into input (<<>> for a malformed body)
    well_formed,   \* input is the encoding of sent
    pos,           \* how many bytes of input the transport has delivered
    buffer,        \* FramedRead: state.buffer
    eof,           \* FramedRead: state.eof
    is_readable,   \* FramedRead: state.is_readable
    has_errored,   \* FramedRead: state.has_errored
    max_length,    \* the codec's max_length (max_obj_len)
    json_cursor,   \* JsonArrayCodec: json_cursor
    cursor,        \* ProtobufLenPrefixCodec / ArrowIpcCodec: cursor
    lines_codec,   \* LinesCodec: next_index, is_discarding
    skip_remaining,\* Skip (csv_stream): how many items it still drops
    last,          \* outcome of the latest decode / decode_eof call
    handed,        \* the slices handed to a materializer, in order
    out,           \* the items the stream has yielded, in order
    status         \* "running" | "ended" (the stream yielded None) | "panicked"

vars == <<format, with_csv_header, input, sent, well_formed, pos, buffer, eof,
          is_readable, has_errored, max_length, json_cursor, cursor, lines_codec,
          skip_remaining, last, handed, out, status>>

(***************************************************************************)
(* Error kinds                                                             *)
(***************************************************************************)
CodecError == "CodecError"
InputOutputError == "InputOutputError"
MaxLenReachedError == "MaxLenReachedError"

StreamBodyKind == {CodecError, InputOutputError, MaxLenReachedError}

(* An item of the stream: Ok(value), or Err(StreamBodyError) with its kind  *)
(* and the source error it wraps ("" for none).                            *)
OkItem(v) == [kind |-> "Ok", val |-> v, source |-> ""]
ErrItem(k, src) == [kind |-> k, val |-> <<>>, source |-> src]

(***************************************************************************)
(* Sequence helpers                                                        *)
(***************************************************************************)
Advance_oneMore(buf, n) == SubSeq(buf, n + 2, Len(buf))
Advance_nothing(buf, n) == buf

Advance(buf, n) == SubSeq(buf, n + 1, Len(buf))

RECURSIVE Concat(_)
Concat(ss) == IF ss = <<>> THEN <<>> ELSE Head(ss) \o Concat(Tail(ss))

SeqsUpTo(S, n) == UNION {[1..k -> S] : k \in 0..n}

(* What a decode call returns and leaves behind.  outcome: "None" is        *)
(* Ok(None), "Some" is Ok(Some(item)), "Err" is Err(kind), "Panic" is a    *)
(* panic.  state and buf are the codec state and the buffer after the      *)
(* call; handed is <<slice>> when the call gave slice to a materializer.   *)
DecodeResult(outcome, item, state, buf, handedSlices) ==
    [outcome |-> outcome, item |-> item, state |-> state, buf |-> buf,
     handed |-> handedSlices]

AwaitMore(state, buf) == DecodeResult("None", <<>>, state, buf, <<>>)
Failed(kind, src, state, buf) == DecodeResult("Err", ErrItem(kind, src), state, buf, <<>>)
Panicked(state, buf) == DecodeResult("Panic", <<>>, state, buf, <<>>)
(* A frame went to the materializer, which returned result.                *)
Materialized(result, state, buf, slice) ==
    DecodeResult(IF result.kind = "Ok" THEN "Some" ELSE "Err", result, state, buf, <<slice>>)

(***************************************************************************)
(* JsonArrayCodec                                                          *)
(***************************************************************************)
LBracket == 91     \* b'['
RBracket == 93     \* b']'
Quote == 34        \* b'"'
Backslash == 92    \* b'\\'
LBrace == 123      \* b'{'
RBrace == 125      \* b'}'
Comma == 44        \* b','

JsonCursorNew ==
    [current_offset |-> 0, array_is_opened |-> FALSE, delimiter_expected |-> FALSE,
     quote_opened |-> FALSE, escaped |-> FALSE, opened_brackets |-> 0,
     current_obj_pos |-> 0]

ObjBracesInString == <<123, 34, 97, 34, 58, 34, 125, 123, 44, 91, 34, 125>>  \* {"a":"}{,["}
ObjEscapedQuote == <<123, 34, 97, 34, 58, 34, 92, 34, 34, 125>>               \* {"a":"\""}
ObjEscapedBackslash == <<123, 34, 97, 34, 58, 34, 120, 92, 92, 34, 125>>      \* {"a":"x\\"}

(* The objects T deserializes from: {}, {"a":1}, {"a":2}, {"a":{}} and the *)
(* three above.                                                            *)
JsonObjects ==
    { <<123, 125>>,
      <<123, 34, 97, 34, 58, 49, 125>>,
      <<123, 34, 97, 34, 58, 50, 125>>,
      <<123, 34, 97, 34, 58, 123, 125, 125>>,
      ObjBracesInString, ObjEscapedQuote, ObjEscapedBackslash }

(* serde_json::from_slice(obj_slice): a value of T, or the parse error     *)
(* that decode maps to CodecError.                                         *)
JsonFromSlice(obj_slice) ==
    IF obj_slice \in JsonObjects THEN OkItem(obj_slice)
    ELSE ErrItem(CodecError, "serde_json::Error")

(* buf.is_empty() / buf_len == 0, the first check of every decode.         *)
BufferEmpty_never(buf) == FALSE

BufferEmpty(buf) == Len(buf) = 0

(* The guards of decode's match arms and its length check.                 *)
MaxLenReached(i, maxlen) == i - 1 >= maxlen
ArrayBegin_atAnyDepth(c, ch) == ch = LBracket /\ ~c.quote_opened

ArrayBegin(c, ch) == ch = LBracket /\ ~c.quote_opened /\ c.opened_brackets = 0
QuoteToggle(c, ch) == ch = Quote /\ ~c.escaped
EscapeBegin(c, ch) == ch = Backslash /\ c.quote_opened
ObjectBegin(c, ch) == ch = LBrace /\ ~c.quote_opened
ObjectEnd_anywhere(c, ch) == ch = RBrace

ObjectEnd(c, ch) == ch = RBrace /\ ~c.quote_opened
UnexpectedDelimiter(c, ch) ==
    ch = Comma /\ ~c.quote_opened /\ c.opened_brackets = 0 /\ ~c.delimiter_expected

(* What decode leaves in the cursor when it returns a frame.               *)
FrameReset_keepingOffset(c) ==
    [c EXCEPT !.opened_brackets = 0, !.escaped = FALSE, !.delimiter_expected = TRUE,
              !.current_obj_pos = 0]

FrameReset(c) ==
    [c EXCEPT !.opened_brackets = 0,
              !.escaped = FALSE,
              !.delimiter_expected = TRUE,
              !.current_obj_pos = 0,
              !.current_offset = 0]

(* The for loop of decode from byte i (1-based; i - 1 is                   *)
(* current_offset + position).  opened_brackets is a usize: a negative     *)
(* number n stands for 2^64 + n, the value a wrapping subtraction leaves.  *)
(* overflow_checks tells whether the build panics on arithmetic overflow.  *)
RECURSIVE JsonScan(_, _, _, _, _)
JsonScan(c, buf, i, maxlen, overflow_checks) ==
    IF i > Len(buf)
    THEN AwaitMore([c EXCEPT !.current_offset = Len(buf)], buf)
    ELSE IF MaxLenReached(i, maxlen)
    THEN Failed(MaxLenReachedError, "", c, buf)
    ELSE LET current_ch == buf[i] IN
        IF ArrayBegin(c, current_ch)
        THEN IF c.array_is_opened
             THEN Failed(CodecError, "", c, buf)
             ELSE JsonScan([c EXCEPT !.array_is_opened = TRUE], buf, i + 1, maxlen,
                           overflow_checks)
        ELSE IF QuoteToggle(c, current_ch)
        THEN JsonScan([c EXCEPT !.quote_opened = ~@], buf, i + 1, maxlen, overflow_checks)
        ELSE IF EscapeBegin(c, current_ch)
        THEN JsonScan([c EXCEPT !.escaped = TRUE], buf, i + 1, maxlen, overflow_checks)
        ELSE IF ObjectBegin(c, current_ch)
        THEN JsonScan([c EXCEPT !.current_obj_pos = IF c.opened_brackets = 0 THEN i - 1 ELSE @,
                                !.opened_brackets = @ + 1,
                                !.escaped = FALSE],
                      buf, i + 1, maxlen, overflow_checks)
        ELSE IF ObjectEnd(c, current_ch)
        THEN IF c.opened_brackets = 0 /\ overflow_checks
             THEN Panicked(c, buf)
             ELSE IF c.opened_brackets - 1 = 0
             THEN LET obj_slice == SubSeq(buf, c.current_obj_pos + 1, i)
                  IN Materialized(JsonFromSlice(obj_slice), FrameReset(c), Advance(buf, i),
                                  obj_slice)
             ELSE JsonScan([c EXCEPT !.opened_brackets = @ - 1, !.escaped = FALSE],
                           buf, i + 1, maxlen, overflow_checks)
        ELSE IF UnexpectedDelimiter(c, current_ch)
        THEN Failed(CodecError, "", c, buf)
        ELSE JsonScan([c EXCEPT !.escaped = FALSE], buf, i + 1, maxlen, overflow_checks)

(* JsonArrayCodec::decode; decode_eof calls it.                            *)
JsonDecode(c, buf, maxlen, overflow_checks) ==
    IF BufferEmpty(buf)
    THEN AwaitMore(c, buf)
    ELSE JsonScan(c, buf, c.current_offset + 1, maxlen, overflow_checks)

(***************************************************************************)
(* ProtobufLenPrefixCodec                                                  *)
(*                                                                         *)
(* A u64 / usize is kept as its three limbs lo + mid * 2^28 + hi * 2^56,   *)
(* which are the part0, part1 and part2 of decode_varint_slice.            *)
(***************************************************************************)
ContinuationBit == 128     \* 0x80
MaxVarintWidth == 10

U64(lo, mid, hi) == [lo |-> lo, mid |-> mid, hi |-> hi]
U64Zero == U64(0, 0, 0)
U64FromInt_plusOne(n) == U64(n + 1, 0, 0)

U64FromInt(n) == U64(n, 0, 0)                 \* n < 2^28
U64IsZero(v) == v.lo = 0 /\ v.mid = 0 /\ v.hi = 0
U64Gt(v, n) == v.mid > 0 \/ v.hi > 0 \/ v.lo > n      \* v > n, n < 2^28
U64Le(v, n) == ~U64Gt(v, n)                           \* v <= n, n < 2^28

ProtobufCursorNew == [current_obj_len |-> U64Zero]

(* The unrolled loop of decode_varint_slice from bytes[k] (0-based k),     *)
(* with the u32 accumulators part0..part2 in parts[1..3].                  *)
RECURSIVE VarintStep(_, _, _)
VarintStep(bytes, k, parts) ==
    LET b == bytes[k + 1]
        g == (k \div 4) + 1
        shifted == [parts EXCEPT ![g] = @ + b * (ContinuationBit ^ (k % 4))]
        value == U64(shifted[1], shifted[2], shifted[3])
    IN IF k = MaxVarintWidth - 1
       THEN IF b < 2
            THEN [ok |-> TRUE, panic |-> FALSE, value |-> value, advance |-> MaxVarintWidth]
            ELSE [ok |-> FALSE, panic |-> FALSE, value |-> U64Zero, advance |-> 0]
       ELSE IF b < ContinuationBit
            THEN [ok |-> TRUE, panic |-> FALSE, value |-> value, advance |-> k + 1]
            ELSE VarintStep(bytes, k + 1,
                            [shifted EXCEPT ![g] = @ - ContinuationBit * (ContinuationBit ^ (k % 4))])

decode_varint_slice_part0Only(bytes) ==
    LET r == VarintStep(bytes, 0, <<0, 0, 0>>)
    IN [r EXCEPT !.value = U64(r.value.lo, 0, 0)]

decode_varint_slice(bytes) ==
    IF bytes = <<>> \/ ~(Len(bytes) > MaxVarintWidth \/ bytes[Len(bytes)] < ContinuationBit)
    THEN [ok |-> FALSE, panic |-> TRUE, value |-> U64Zero, advance |-> 0]
    ELSE VarintStep(bytes, 0, <<0, 0, 0>>)

(* The payloads T decodes from; the empty payload is the default message.  *)
ProtoPayloads ==
    { <<>>, <<8>>, <<8, 1>>, <<10, 9, 84, 101, 115, 116, 86, 97, 108, 117, 101>> }

(* prost::Message::decode(obj_bytes): a message, or the DecodeError that   *)
(* decode maps to CodecError.                                              *)
ProstDecode(obj_bytes) ==
    IF obj_bytes \in ProtoPayloads THEN OkItem(obj_bytes)
    ELSE ErrItem(CodecError, "prost::DecodeError")

(* The conditions of decode's branches.                                    *)
ExceedsMaxLength_never(c, maxlen) == FALSE
ExceedsMaxLength_offByOne(c, maxlen) == U64Gt(c.current_obj_len, maxlen + 1)

VarintBuffered_always(buf) == TRUE

AwaitingLength(c) == U64IsZero(c.current_obj_len)
VarintBuffered(buf) == Len(buf) > MaxVarintWidth \/ buf[Len(buf)] < ContinuationBit
ExceedsMaxLength(c, maxlen) == U64Gt(c.current_obj_len, maxlen)
PayloadBuffered(c, buf) == U64Le(c.current_obj_len, Len(buf))

(* ProtobufLenPrefixCodec::decode; decode_eof calls it.                    *)
ProtobufDecode(c, buf, maxlen) ==
    IF BufferEmpty(buf)
    THEN AwaitMore(c, buf)
    ELSE IF AwaitingLength(c)
    THEN LET byte == buf[1] IN
         IF buf = <<>> THEN Panicked(c, buf)      \* bytes[0] of an empty slice
         ELSE IF byte < ContinuationBit
         THEN AwaitMore([current_obj_len |-> U64FromInt(byte)], Advance(buf, 1))
         ELSE IF VarintBuffered(buf)
         THEN LET r == decode_varint_slice(buf) IN
              IF r.panic THEN Panicked(c, buf)
              ELSE IF ~r.ok THEN Failed(CodecError, "", c, buf)
              ELSE AwaitMore([current_obj_len |-> r.value], Advance(buf, r.advance))
         ELSE AwaitMore(c, buf)
    ELSE IF ExceedsMaxLength(c, maxlen)
    THEN Failed(MaxLenReachedError, "", c, buf)
    ELSE IF PayloadBuffered(c, buf)
    THEN LET obj_bytes == SubSeq(buf, 1, c.current_obj_len.lo)
         IN Materialized(ProstDecode(obj_bytes), [current_obj_len |-> U64Zero],
                         Advance(buf, c.current_obj_len.lo), obj_bytes)
    ELSE AwaitMore(c, buf)

(***************************************************************************)
(* ArrowIpcCodec                                                           *)
(***************************************************************************)
IPC_STREAM_CONTINUATION_MARKER == U64(268435455, 15, 0)    \* 0xffffffff
LenPrefixWidth == 8
Limb == 268435456                                          \* 2^28

(* get_u32_le of four bytes, as limbs.                                     *)
U32Le(b) == U64(b[1] + 256 * b[2] + 65536 * b[3] + 16777216 * (b[4] % 16), b[4] \div 16, 0)

(* A sum that adds nothing.                                                *)
U32Add4_addsNothing(v) == [value |-> v, overflow |-> FALSE]

(* v + 4 in u32: the sum, and whether it overflowed (then the sum is the   *)
(* wrapped one).                                                           *)
U32Add4(v) ==
    LET lo == v.lo + 4
        mid == IF lo >= Limb THEN v.mid + 1 ELSE v.mid
    IN [value |-> U64(lo % Limb, mid % 16, 0), overflow |-> mid >= 16]

(* StreamDecoder::decode on the frame is the arrow crate's: any of         *)
(* Ok(Some(batch)), Ok(None) and Err can come back (maybe_record).  It     *)
(* returns a batch as soon as one is complete, which may be before the end *)
(* of the frame ("SomeBeforeEnd": the last byte is left in its argument);  *)
(* the batch is named by the bytes it was decoded from.                    *)
ArrowDecoderResults == {"Some", "SomeBeforeEnd", "None", "Err"}

(* ArrowIpcCodec::decode; decode_eof calls it.                             *)
ArrowDecode(c, buf, maxlen, overflow_checks, maybe_record) ==
    IF BufferEmpty(buf)
    THEN AwaitMore(c, buf)
    ELSE IF AwaitingLength(c)
    THEN IF Len(buf) < LenPrefixWidth
         THEN AwaitMore(c, buf)
         ELSE LET first == U32Le(SubSeq(buf, 1, 4))
                  second == U32Add4(U32Le(SubSeq(buf, 5, 8)))
                  marked == first = IPC_STREAM_CONTINUATION_MARKER
                  possible_len == IF marked THEN second.value ELSE first
                  total == U32Add4(possible_len)
              IN IF overflow_checks /\ ((marked /\ second.overflow) \/ total.overflow)
                 THEN Panicked(c, buf)
                 ELSE AwaitMore([current_obj_len |-> total.value], buf)
    ELSE IF ExceedsMaxLength(c, maxlen)
    THEN Failed(MaxLenReachedError, "", c, buf)
    ELSE IF PayloadBuffered(c, buf)
    THEN LET obj_bytes == SubSeq(buf, 1, c.current_obj_len.lo)
             after == [current_obj_len |-> U64Zero]
             rest == Advance(buf, c.current_obj_len.lo)
         IN CASE maybe_record = "Some" ->
                   Materialized(OkItem(obj_bytes), after, rest, obj_bytes)
              [] maybe_record = "SomeBeforeEnd" ->
                   Materialized(OkItem(SubSeq(obj_bytes, 1, Len(obj_bytes) - 1)),
                                after, rest, obj_bytes)
              [] maybe_record = "None" ->
                   DecodeResult("None", <<>>, after, rest, <<obj_bytes>>)
              [] maybe_record = "Err" ->
                   Materialized(ErrItem(CodecError, "ArrowError"), after, rest, obj_bytes)
    ELSE AwaitMore(c, buf)

(***************************************************************************)
(* tokio_util::codec::LinesCodec, which json_nl_stream and csv_stream      *)
(* frame with, and the closures they map over its frames                   *)
(***************************************************************************)
Newline == 10          \* b'\n'
CarriageReturn == 13   \* b'\r'

LinesCodecNew == [next_index |-> 0, is_discarding |-> FALSE]

Min(a, b) == IF a < b THEN a ELSE b

(* buf[from..to].iter().position(|b| *b == b'\n'): the offset from `from`  *)
(* (0-based) of the first newline before `to`, or -1.                      *)
NewlineOffset(buf, from, to) ==
    LET hits == {k \in (from + 1)..to : buf[k] = Newline}
    IN IF hits = {} THEN -1
       ELSE (CHOOSE k \in hits : \A h \in hits : k <= h) - 1 - from

without_carriage_return(line) ==
    IF line # <<>> /\ line[Len(line)] = CarriageReturn
    THEN SubSeq(line, 1, Len(line) - 1)
    ELSE line

(* utf8(line) succeeds: the bodies of the model are ASCII but for the byte *)
(* 0xFF, which no UTF-8 text holds.                                        *)
Utf8Valid(line) == \A k \in 1..Len(line) : line[k] < ContinuationBit

LineFrame(line, state, rest) ==
    IF Utf8Valid(line)
    THEN DecodeResult("Some", OkItem(line), state, rest, <<>>)
    ELSE Failed("LinesCodecError", "Io", state, rest)

(* LinesCodec::decode                                                      *)
RECURSIVE LinesDecode(_, _, _)
LinesDecode(c, buf, maxlen) ==
    LET read_to == Min(maxlen + 1, Len(buf))
        newline_offset == NewlineOffset(buf, c.next_index, read_to)
    IN IF c.is_discarding /\ newline_offset >= 0
       THEN LinesDecode([next_index |-> 0, is_discarding |-> FALSE],
                        Advance(buf, newline_offset + c.next_index + 1), maxlen)
       ELSE IF c.is_discarding
       THEN IF Advance(buf, read_to) = <<>>
            THEN AwaitMore([c EXCEPT !.next_index = 0], <<>>)
            ELSE LinesDecode([c EXCEPT !.next_index = 0], Advance(buf, read_to), maxlen)
       ELSE IF newline_offset >= 0
       THEN LET newline_index == newline_offset + c.next_index
            IN LineFrame(without_carriage_return(SubSeq(buf, 1, newline_index)),
                         [c EXCEPT !.next_index = 0], Advance(buf, newline_index + 1))
       ELSE IF Len(buf) > maxlen
       THEN Failed("LinesCodecError", "MaxLineLengthExceeded",
                   [c EXCEPT !.is_discarding = TRUE], buf)
       ELSE AwaitMore([c EXCEPT !.next_index = read_to], buf)

(* A decode_eof that only calls decode: a line needs its newline.          *)
LinesDecodeEof_asDecode(c, buf, maxlen) == LinesDecode(c, buf, maxlen)

(* LinesCodec::decode_eof                                                  *)
LinesDecodeEof(c, buf, maxlen) ==
    LET r == LinesDecode(c, buf, maxlen) IN
    IF r.outcome # "None" THEN r
    ELSE IF r.buf = <<>> \/ r.buf = <<CarriageReturn>>
    THEN AwaitMore([r.state EXCEPT !.next_index = 0], r.buf)
    ELSE LineFrame(without_carriage_return(r.buf), [r.state EXCEPT !.next_index = 0], <<>>)

(* The rows T deserializes from: a,b and c,d.                              *)
CsvRows == { <<97, 44, 98>>, <<99, 44, 100>> }

(* serde_json::from_str(frame_str) in json_nl_stream's closure             *)
JsonFromStr(frame_str) ==
    IF frame_str \in JsonObjects THEN OkItem(frame_str)
    ELSE ErrItem(CodecError, "serde_json::Error")

(* csv_reader.deserialize::<T>().next() in csv_stream's closure: no record *)
(* in an empty line, else the row or csv's error.                          *)
CsvDeserialize(frame_str) ==
    IF frame_str = <<>> THEN ErrItem(CodecError, "")
    ELSE IF frame_str \in CsvRows THEN OkItem(frame_str)
    ELSE ErrItem(CodecError, "csv::Error")

(* A closure that passes a line on as the record, unparsed.                *)
MapFrame_withoutParsing(fmt, frame_res) ==
    IF frame_res.kind = "Ok" THEN OkItem(frame_res.val)
    ELSE ErrItem(CodecError, frame_res.source)

(* The closure json_nl_stream and csv_stream map over a frame result.      *)
MapFrame(fmt, frame_res) ==
    IF frame_res.kind = "Ok"
    THEN IF fmt = "csv" THEN CsvDeserialize(frame_res.val) ELSE JsonFromStr(frame_res.val)
    ELSE ErrItem(CodecError, frame_res.source)

(***************************************************************************)
(* The response bodies the model runs on                                   *)
(***************************************************************************)
MaxObjs == 2        \* most objects in a JSON array body
MaxMsgs == 3        \* most messages in a Protobuf body
MaxFrames == 2      \* most messages in an Arrow body
MaxLines == 2       \* most lines in a JSON-Lines or CSV body
MaxJunkLen == 3     \* longest arbitrary (malformed) body

RECURSIVE JoinWith(_, _)
JoinWith(ss, sep) ==
    IF ss = <<>> THEN <<>>
    ELSE IF Len(ss) = 1 THEN Head(ss)
    ELSE Head(ss) \o <<sep>> \o JoinWith(Tail(ss), sep)

Body(bytes, records, wf) == [input |-> bytes, sent |-> records, well_formed |-> wf]

JunkBodies(bytes) == {Body(j, <<>>, FALSE) : j \in SeqsUpTo(bytes, MaxJunkLen) \ {<<>>}}

(* The body axum-streams' json_array writes for objs.                      *)
JsonArrayBody(objs) == <<LBracket>> \o JoinWith(objs, Comma) \o <<RBracket>>

JsonJunkBytes == {LBracket, LBrace, RBrace, Comma, Quote, Backslash, 97}

(* [{},,{}] and [{}[{}]: arrays with a second delimiter and a second `[`.  *)
JsonMalformedArrays ==
    { <<91, 123, 125, 44, 44, 123, 125, 93>>,
      <<91, 123, 125, 91, 123, 125, 93>> }

(* varint(len) ++ payload, for the payload lengths of the model (< 128).   *)
ProtoFrame(payload) == <<Len(payload)>> \o payload

ProtoBody(msgs) == Concat([i \in 1..Len(msgs) |-> ProtoFrame(msgs[i])])

ProtoJunkBytes == {0, 1, 2, 127, 128, 255}

(* Length prefixes of 5 and 10 bytes: 2^32 - 1 and 2^64 - 1, alone and     *)
(* with a byte after them, and the malformed prefixes whose 10th byte is   *)
(* 0x02, 0x7f, 0x80 or 0xff, alone and with a byte after them.             *)
ProtoLongPrefixes ==
    LET nine == <<255, 255, 255, 255, 255, 255, 255, 255, 255>>
        prefixes == {<<255, 255, 255, 255, 15>>}
                    \cup {nine \o <<b>> : b \in {1, 2, 127, 128, 255}}
    IN {p \o t : p \in prefixes, t \in {<<>>, <<1>>, <<255>>}}

(* Arrow messages: continuation marker, length 2, 2 bytes; continuation    *)
(* marker, length 3, 3 bytes; and, without a marker, length 4, 4 bytes.    *)
ArrowMessages ==
    { <<255, 255, 255, 255, 2, 0, 0, 0, 1, 1>>,
      <<255, 255, 255, 255, 3, 0, 0, 0, 1, 1, 1>>,
      <<4, 0, 0, 0, 1, 1, 1, 1>> }

(* Length prefixes whose u32 sums overflow, and a long declared length.    *)
ArrowJunk ==
    { <<255, 255, 255, 255, 255, 255, 255, 255, 1>>,
      <<255, 255, 255, 255, 252, 255, 255, 255, 1>>,
      <<252, 255, 255, 255, 0, 0, 0, 0, 1>>,
      <<0, 0, 0, 16, 0, 0, 0, 0, 1>>,
      <<1, 2, 3>> }

(* The lines of a JSON-Lines body: {}, {"a":1}, x and {"a":"x\\"}.         *)
JsonLines ==
    { <<123, 125>>, <<123, 34, 97, 34, 58, 49, 125>>, <<120>>,
      <<123, 34, 97, 34, 58, 34, 120, 92, 92, 34, 125>> }

(* The lines of a CSV body: a,b  c,d  the empty line, x and a long row.    *)
CsvLines ==
    { <<97, 44, 98>>, <<99, 44, 100>>, <<>>, <<120>>,
      <<97, 97, 97, 97, 97, 44, 98, 98, 98, 98, 98>> }

(* lines, each ended by a newline but, without `terminated`, the last.     *)
LinesBody(lines, terminated) ==
    JoinWith(lines, Newline) \o (IF terminated /\ lines # <<>> THEN <<Newline>> ELSE <<>>)

LinesBodies(pool) ==
    {Body(LinesBody(ls, t), ls, TRUE) : ls \in SeqsUpTo(pool, MaxLines), t \in BOOLEAN}

LinesJunkBytes == {Newline, CarriageReturn, 120, 255}

(* max_obj_len as the tests pass it.                                       *)
TestMaxObjLen == 1024
TestSmallMaxObjLen == 10

Bodies(fmt) ==
    CASE fmt = "json_array" ->
           {Body(JsonArrayBody(objs), objs, TRUE) : objs \in SeqsUpTo(JsonObjects, MaxObjs)}
           \cup JunkBodies(JsonJunkBytes)
           \cup {Body(j, <<>>, FALSE) : j \in JsonMalformedArrays}
      [] fmt = "protobuf" ->
           {Body(ProtoBody(msgs), msgs, TRUE) : msgs \in SeqsUpTo(ProtoPayloads, MaxMsgs)}
           \cup JunkBodies(ProtoJunkBytes)
           \cup {Body(j, <<>>, FALSE) : j \in ProtoLongPrefixes}
      [] fmt = "arrow" ->
           {Body(Concat(ms), ms, TRUE) : ms \in SeqsUpTo(ArrowMessages, MaxFrames)}
           \cup {Body(j, <<>>, FALSE) : j \in ArrowJunk}
      [] fmt = "json_nl" -> LinesBodies(JsonLines) \cup JunkBodies(LinesJunkBytes)
      [] fmt = "csv" -> LinesBodies(CsvLines) \cup JunkBodies(LinesJunkBytes)

(***************************************************************************)
(* The stream: FramedRead::poll_next over the codec, and the combinators   *)
(* the *_stream methods put on it                                          *)
(***************************************************************************)
OverflowChecks == BOOLEAN   \* debug builds panic on overflow, release builds wrap

FramingFormats == {"json_array", "protobuf", "arrow"}
LineFormats == {"json_nl", "csv"}
Formats == FramingFormats \cup LineFormats

InitFor(fmts) ==
    /\ format \in fmts
    /\ \E b \in Bodies(format) :
          /\ input = b.input
          /\ sent = b.sent
          /\ well_formed = b.well_formed
    /\ pos = 0
    /\ buffer = <<>>
    /\ eof = FALSE
    /\ is_readable = FALSE
    /\ has_errored = FALSE
    /\ max_length \in {TestSmallMaxObjLen, TestMaxObjLen}
    /\ json_cursor = JsonCursorNew
    /\ cursor = ProtobufCursorNew
    /\ lines_codec = LinesCodecNew
    /\ with_csv_header \in IF format = "csv" THEN BOOLEAN ELSE {FALSE}
    /\ skip_remaining = IF with_csv_header THEN 1 ELSE 0
    /\ last = "none"
    /\ handed = <<>>
    /\ out = <<>>
    /\ status = "running"

(* Decoder::decode_eof as tokio_util provides it by default, which the     *)
(* three codecs override: bytes left after decode returns None are an      *)
(* error.                                                                  *)
CodecDecode_defaultEof(overflow_checks, maybe_record) ==
    LET r == CASE format = "json_array" ->
                    JsonDecode(json_cursor, buffer, max_length, overflow_checks)
               [] format = "protobuf" -> ProtobufDecode(cursor, buffer, max_length)
               [] format = "arrow" ->
                    ArrowDecode(cursor, buffer, max_length, overflow_checks, maybe_record)
               [] format \in LineFormats ->
                    IF eof THEN LinesDecodeEof(lines_codec, buffer, max_length)
                    ELSE LinesDecode(lines_codec, buffer, max_length)
    IN IF eof /\ format \in FramingFormats /\ r.outcome = "None" /\ r.buf # <<>>
       THEN Failed(InputOutputError, "bytes remaining on stream", r.state, r.buf)
       ELSE r

(* codec.decode(&mut state.buffer), or codec.decode_eof(&mut state.buffer) *)
(* once the body has ended.                                                *)
CodecDecode(overflow_checks, maybe_record) ==
    CASE format = "json_array" -> JsonDecode(json_cursor, buffer, max_length, overflow_checks)
      [] format = "protobuf" -> ProtobufDecode(cursor, buffer, max_length)
      [] format = "arrow" ->
           ArrowDecode(cursor, buffer, max_length, overflow_checks, maybe_record)
      [] format \in LineFormats ->
           IF eof THEN LinesDecodeEof(lines_codec, buffer, max_length)
           ELSE LinesDecode(lines_codec, buffer, max_length)

(* What the arrow crate's decoder may return; the other codecs have none.  *)
MaybeRecords == IF format = "arrow" THEN ArrowDecoderResults ELSE {"None"}

(* The build that decides the call: the builds differ only where the       *)
(* checked one panics, so elsewhere the call is evaluated once.            *)
Builds(overflow_checks, maybe_record) ==
    overflow_checks \/ CodecDecode(TRUE, maybe_record).outcome # "Panic"

CodecStateAfter(r) ==
    /\ json_cursor' = IF format = "json_array" THEN r.state ELSE json_cursor
    /\ cursor' = IF format \in {"protobuf", "arrow"} THEN r.state ELSE cursor
    /\ lines_codec' = IF format \in LineFormats THEN r.state ELSE lines_codec

(* The io::Error of a failed read as the FramedRead's error type: a        *)
(* StreamBodyError through From<std::io::Error>, or LinesCodecError::Io.   *)
IoFailure ==
    IF format \in LineFormats THEN ErrItem("LinesCodecError", "Io")
    ELSE ErrItem(InputOutputError, "io::Error")

(* A stream without Skip: every frame result goes to the closure.          *)
Yield_withoutSkip(frame_res, slices) ==
    /\ skip_remaining' = skip_remaining
    /\ out' = IF format \in LineFormats THEN Append(out, MapFrame(format, frame_res))
              ELSE Append(out, frame_res)
    /\ handed' = IF format \in LineFormats /\ frame_res.kind = "Ok"
                 THEN Append(handed, frame_res.val)
                 ELSE handed \o slices

(* FramedRead yields frame_res: Skip drops it while it still has items to  *)
(* skip, and the closure of map turns a line into an item.                 *)
Yield(frame_res, slices) ==
    /\ skip_remaining' = IF skip_remaining > 0 THEN skip_remaining - 1 ELSE 0
    /\ out' = IF skip_remaining > 0 THEN out
              ELSE IF format \in LineFormats THEN Append(out, MapFrame(format, frame_res))
              ELSE Append(out, frame_res)
    /\ handed' = IF format \in LineFormats /\ skip_remaining = 0 /\ frame_res.kind = "Ok"
                 THEN Append(handed, frame_res.val)
                 ELSE handed \o slices

(* poll_next with state.is_readable: one decode (framing) or decode_eof    *)
(* (pausing) call and what poll_next does with its result.                 *)
PollDecode ==
    /\ status = "running"
    /\ ~has_errored
    /\ is_readable
    /\ \E maybe_record \in MaybeRecords, overflow_checks \in OverflowChecks :
         LET r == CodecDecode(Builds(overflow_checks, maybe_record), maybe_record) IN
         /\ CodecStateAfter(r)
         /\ buffer' = r.buf
         /\ last' = IF r.outcome = "Err" THEN r.item.kind ELSE r.outcome
         /\ CASE r.outcome = "Panic" ->
                   /\ status' = "panicked"
                   /\ UNCHANGED <<out, handed, skip_remaining, is_readable, has_errored>>
              [] r.outcome = "Err" ->
                   /\ has_errored' = TRUE
                   /\ Yield(r.item, r.handed)
                   /\ UNCHANGED <<status, is_readable>>
              [] r.outcome = "Some" ->
                   /\ Yield(r.item, r.handed)
                   /\ UNCHANGED <<status, is_readable, has_errored>>
              [] r.outcome = "None" ->
                   /\ is_readable' = FALSE
                   /\ status' = IF eof THEN "ended" ELSE status
                   /\ handed' = handed \o r.handed
                   /\ UNCHANGED <<out, skip_remaining, has_errored>>
    /\ UNCHANGED <<format, with_csv_header, input, sent, well_formed, pos, eof, max_length>>

(* poll_next reading: poll_read_buf appends the next n > 0 bytes.          *)
PollRead(n) ==
    /\ status = "running"
    /\ ~has_errored
    /\ ~is_readable
    /\ n \in 1..(Len(input) - pos)
    /\ buffer' = buffer \o SubSeq(input, pos + 1, pos + n)
    /\ pos' = pos + n
    /\ eof' = FALSE
    /\ is_readable' = TRUE
    /\ UNCHANGED <<format, with_csv_header, input, sent, well_formed, has_errored, max_length, json_cursor,
                   cursor, lines_codec, skip_remaining, last, handed, out, status>>

(* poll_next reading: poll_read_buf reads 0 bytes, the end of the body.    *)
PollReadEof ==
    /\ status = "running"
    /\ ~has_errored
    /\ ~is_readable
    /\ pos = Len(input)
    /\ IF eof
       THEN status' = "ended" /\ UNCHANGED <<eof, is_readable>>
       ELSE eof' = TRUE /\ is_readable' = TRUE /\ UNCHANGED status
    /\ UNCHANGED <<format, with_csv_header, input, sent, well_formed, pos, buffer, has_errored, max_length,
                   json_cursor, cursor, lines_codec, skip_remaining, last, handed, out>>

(* poll_next reading: poll_read_buf fails (the transport may fail at any   *)
(* read).                                                                  *)
PollReadError ==
    /\ status = "running"
    /\ ~has_errored
    /\ ~is_readable
    /\ has_errored' = TRUE
    /\ Yield(IoFailure, <<>>)
    /\ UNCHANGED <<format, with_csv_header, input, sent, well_formed, pos, buffer, eof, is_readable,
                   max_length, json_cursor, cursor, lines_codec, last, status>>

(* A poll_next that forgets the error and goes on reading.                 *)
PollErrored_resumes ==
    /\ status = "running"
    /\ has_errored
    /\ is_readable' = FALSE
    /\ has_errored' = FALSE
    /\ UNCHANGED <<format, with_csv_header, input, sent, well_formed, pos, buffer, eof, max_length, json_cursor,
                   cursor, lines_codec, skip_remaining, last, handed, out, status>>

(* poll_next with state.has_errored: the stream yields None.               *)
PollErrored ==
    /\ status = "running"
    /\ has_errored
    /\ is_readable' = FALSE
    /\ has_errored' = FALSE
    /\ status' = "ended"
    /\ UNCHANGED <<format, with_csv_header, input, sent, well_formed, pos, buffer, eof, max_length,
                   json_cursor, cursor, lines_codec, skip_remaining, last, handed, out>>

Next ==
    \/ PollDecode
    \/ \E n \in 1..Len(input) : PollRead(n)
    \/ PollReadEof
    \/ PollReadError
    \/ PollErrored

Spec == InitFor(Formats) /\ [][Next]_vars
SpecJsonArray == InitFor({"json_array"}) /\ [][Next]_vars
SpecProtobuf == InitFor({"protobuf"}) /\ [][Next]_vars
SpecFraming == InitFor(FramingFormats) /\ [][Next]_vars
SpecLines == InitFor(LineFormats) /\ [][Next]_vars

(* The consumer keeps polling: a poll_next that can take a step takes it.  *)
SpecFramingLive == SpecFraming /\ WF_vars(Next)

(***************************************************************************)
(* Properties                                                              *)
(***************************************************************************)
(* The items a body's records should come out as.                          *)
ExpectedItems == [i \in 1..Len(sent) |-> OkItem(sent[i])]

Kinds(items) == {items[i].kind : i \in 1..Len(items)}

IsOk(item) == item.kind = "Ok"

(* The values among the items yielded so far.                              *)
Values == SelectSeq(out, IsOk)

(* The stream has ended without the transport having failed.               *)
EndedWithoutIoError ==
    /\ status = "ended"
    /\ \A i \in 1..Len(out) : out[i].kind # InputOutputError /\ out[i].source # "Io"

(* How many bytes of the body the codec has taken off the buffer.          *)
Consumed == pos - Len(buffer)

(* C1: a well-formed JSON array of objects, however its bytes are split    *)
(* into chunks, comes out of json_array_stream (max_obj_len = 1024) as its *)
(* objects, in source order.                                               *)
C1_JsonArrayChunkInvariance ==
    (format = "json_array" /\ well_formed /\ max_length = TestMaxObjLen
        /\ EndedWithoutIoError)
    => out = ExpectedItems

(* C2: a well-formed Protobuf body whose (non-empty) messages are no       *)
(* longer than max_obj_len, however its bytes are split into chunks before *)
(* the end of input, comes out of protobuf_stream as its messages, in      *)
(* source order.                                                           *)
C2_ProtobufChunkInvariance ==
    (format = "protobuf" /\ well_formed /\ EndedWithoutIoError
        /\ \A i \in 1..Len(sent) : Len(sent[i]) \in 1..max_length)
    => out = ExpectedItems

(* The messages of sent whose frames lie within the first n bytes of the   *)
(* body.                                                                   *)
RECURSIVE FramesWithin(_, _)
FramesWithin(msgs, n) ==
    IF msgs = <<>> \/ Len(ProtoFrame(Head(msgs))) > n THEN <<>>
    ELSE <<Head(msgs)>> \o FramesWithin(Tail(msgs), n - Len(ProtoFrame(Head(msgs))))

(* C3: every frame of a well-formed Protobuf body that the decoder has     *)
(* taken off the buffer was handed to the materializer and emitted, in     *)
(* order: N frames give N items, a frame of length 0 the default message.  *)
C3_ProtobufRoundTrip ==
    (format = "protobuf" /\ well_formed /\ status # "panicked")
    => /\ handed = FramesWithin(sent, Consumed)
       /\ Values = [i \in 1..Len(handed) |-> OkItem(handed[i])]

(* C4: no slice handed to a materializer (serde_json::from_slice, prost's   *)
(* decode, Arrow's StreamDecoder) by the JSON-Array, Protobuf and Arrow    *)
(* decoders is longer than max_obj_len, for any body and any chunking.     *)
C4_MaxLengthBackstop ==
    format \in FramingFormats => \A i \in 1..Len(handed) : Len(handed[i]) <= max_length

(* A frame was materialized and then a longer one refused.                 *)
C4_Witness ==
    /\ format = "protobuf"
    /\ handed # <<>>
    /\ out # <<>>
    /\ out[Len(out)].kind = MaxLenReachedError

(* No string of the body holds an escaped backslash.                       *)
NoEscapedBackslash ==
    \A k \in 1..(Len(input) - 1) : ~(input[k] = Backslash /\ input[k + 1] = Backslash)

(* The objects of sent longer than max_obj_len.                            *)
Oversized == {i \in 1..Len(sent) : Len(sent[i]) > max_length}

FirstOversized == CHOOSE i \in Oversized : \A k \in Oversized : i <= k

(* C5: a JSON array (here: one without escaped backslashes) with an object *)
(* longer than max_obj_len, however it is chunked, comes out as the items  *)
(* of the objects before the first such object and then one                *)
(* MaxLenReachedError, with no value for that object.                      *)
C5_JsonArrayMaxLenEnforced ==
    (format = "json_array" /\ well_formed /\ NoEscapedBackslash /\ Oversized # {}
        /\ EndedWithoutIoError)
    => out = [i \in 1..(FirstOversized - 1) |-> OkItem(sent[i])]
             \o <<ErrItem(MaxLenReachedError, "")>>

(* The Protobuf decoder is about to be called while it awaits a payload    *)
(* whose expected length exceeds max_obj_len.                              *)
DecodingOversizedPayload ==
    /\ format = "protobuf"
    /\ status = "running" /\ is_readable /\ ~has_errored
    /\ U64Gt(cursor.current_obj_len, max_length)

(* C6 as stated: awaiting a payload whose expected length exceeds          *)
(* max_obj_len, the next decode attempt fails with MaxLenReachedError      *)
(* however many payload bytes are buffered, none included, at the end of   *)
(* input too.                                                              *)
C6_OversizedPayloadAlwaysFails ==
    [][DecodingOversizedPayload => last' = MaxLenReachedError]_vars

(* C6 amended: awaiting a payload whose expected length exceeds            *)
(* max_obj_len, the next decode attempt with at least one byte buffered    *)
(* fails with MaxLenReachedError, however few payload bytes are buffered,  *)
(* and touches neither the buffer nor the materializer; with an empty      *)
(* buffer it returns await-more-input.                                     *)
C6_OversizedPayloadFailsOnceBytesArrive ==
    [][DecodingOversizedPayload =>
          IF buffer # <<>>
          THEN /\ last' = MaxLenReachedError
               /\ out' = Append(out, ErrItem(MaxLenReachedError, ""))
               /\ buffer' = buffer /\ handed' = handed
          ELSE last' = "None" /\ out' = out]_vars

(* The error came while fewer bytes than the expected length were buffered. *)
C6_Witness ==
    /\ format = "protobuf"
    /\ last = MaxLenReachedError
    /\ U64Gt(cursor.current_obj_len, max_length)
    /\ buffer # <<>>
    /\ U64Gt(cursor.current_obj_len, Len(buffer))

(* C7: a Protobuf body of 3 (non-empty) messages of which only the second  *)
(* is longer than max_obj_len comes out, however it is chunked, as the     *)
(* first message, one MaxLenReachedError, and nothing else.                *)
C7_ThreeMessageScenario ==
    (format = "protobuf" /\ well_formed /\ EndedWithoutIoError /\ Len(sent) = 3
        /\ Len(sent[1]) \in 1..max_length
        /\ Len(sent[2]) > max_length
        /\ Len(sent[3]) \in 1..max_length)
    => out = <<OkItem(sent[1]), ErrItem(MaxLenReachedError, "")>>

(* C8: the error item of a JSON-Lines or CSV stream for a line longer than *)
(* max_obj_len has the kind MaxLenReachedError.                            *)
C8_LongLineIsMaxLenReached ==
    format \in LineFormats =>
        \A i \in 1..Len(out) :
            out[i].source = "MaxLineLengthExceeded" => out[i].kind = MaxLenReachedError

(* JSON's own lexical state after bytes: inside a string, right after an   *)
(* unescaped backslash of a string, and the depth of open braces.          *)
RECURSIVE JsonLex(_, _, _)
JsonLex(bytes, k, st) ==
    IF k > Len(bytes) THEN st
    ELSE LET b == bytes[k] IN
         JsonLex(bytes, k + 1,
            IF st.in_string
            THEN IF st.escaped THEN [st EXCEPT !.escaped = FALSE]
                 ELSE IF b = Backslash THEN [st EXCEPT !.escaped = TRUE]
                 ELSE IF b = Quote THEN [st EXCEPT !.in_string = FALSE]
                 ELSE st
            ELSE IF b = Quote THEN [st EXCEPT !.in_string = TRUE]
                 ELSE IF b = LBrace THEN [st EXCEPT !.depth = @ + 1]
                 ELSE IF b = RBrace THEN [st EXCEPT !.depth = @ - 1]
                 ELSE st)

(* The bytes of the body the JSON-Array decoder has scanned.               *)
Scanned == SubSeq(input, 1, Consumed + json_cursor.current_offset)

LexScanned == JsonLex(Scanned, 1, [in_string |-> FALSE, escaped |-> FALSE, depth |-> 0])

(* No decode call has failed or panicked (the cursor is then left as the   *)
(* scan had it when it stopped).                                           *)
ScanIntact ==
    /\ status # "panicked"
    /\ Kinds(out) \cap {CodecError, MaxLenReachedError} = {}

C10_EscapedFlagIsExact ==
    (format = "json_array" /\ well_formed /\ ScanIntact)
    => /\ json_cursor.escaped = LexScanned.escaped
       /\ json_cursor.quote_opened = LexScanned.in_string

(* The stream's next step is a decode (or decode_eof) call on the buffer.   *)
DecodeCall == status = "running" /\ is_readable /\ ~has_errored

JsonDecodeCall == format = "json_array" /\ DecodeCall

(* The bytes of the buffer the JSON-Array scan has not looked at yet, and  *)
(* the first of them, which the call scans with the cursor as it stands.   *)
Unscanned == Len(buffer) - json_cursor.current_offset

NextByte == buffer[json_cursor.current_offset + 1]

ScansNextByte == JsonDecodeCall /\ Unscanned >= 1 /\ json_cursor.current_offset < max_length

TopLevel(c) == ~c.quote_opened /\ c.opened_brackets = 0

YieldsCodecError ==
    /\ last' = CodecError
    /\ out' = Append(out, ErrItem(CodecError, ""))
    /\ has_errored'

(* C11: a decode call that meets a `[` outside quotes at brace depth 0     *)
(* while the array is already open fails with CodecError; a `[` at brace   *)
(* depth > 0 or inside a string raises nothing and leaves the array-open   *)
(* flag alone, and the first top-level `[` opens the array.                *)
C11_SecondArrayBeginIsCodecError ==
    [][(ScansNextByte /\ NextByte = LBracket) =>
          IF TopLevel(json_cursor) /\ json_cursor.array_is_opened
          THEN YieldsCodecError
          ELSE Unscanned = 1 =>
                 /\ last' = "None"
                 /\ out' = out
                 /\ json_cursor'.array_is_opened =
                        (json_cursor.array_is_opened \/ TopLevel(json_cursor))]_vars

(* The call that met the second `[` of [{}[{}] has failed.                 *)
C11_Witness ==
    /\ format = "json_array"
    /\ last = CodecError
    /\ out = <<OkItem(<<LBrace, RBrace>>), ErrItem(CodecError, "")>>
    /\ json_cursor.array_is_opened /\ TopLevel(json_cursor)
    /\ buffer # <<>> /\ buffer[1] = LBracket

(* The byte scanned last closed an object: the frame's bytes are consumed  *)
(* through the closing brace, so the buffer starts right after it.         *)
FollowsObject ==
    /\ json_cursor.current_offset = 0
    /\ Consumed > 0
    /\ input[Consumed] = RBrace

(* C12: a `,` outside quotes at brace depth 0 is accepted only right after *)
(* a completed object; any other top-level `,` fails with CodecError.      *)
C12_StrayDelimiterIsCodecError ==
    [][(ScansNextByte /\ NextByte = Comma /\ TopLevel(json_cursor)) =>
          IF FollowsObject
          THEN Unscanned = 1 => (last' = "None" /\ out' = out)
          ELSE YieldsCodecError]_vars

RECURSIVE BytesThrough(_, _)
BytesThrough(objs, k) == IF k = 0 THEN 0 ELSE BytesThrough(objs, k - 1) + Len(objs[k])

(* Where the k-th object of a well-formed JSON array body ends: after the  *)
(* `[`, k objects and the k - 1 commas between them.                      *)
ObjEnd(k) == 1 + BytesThrough(sent, k) + (k - 1)

(* The next object of the body has arrived in full.                        *)
NextObjectBuffered == Len(handed) < Len(sent) /\ pos >= ObjEnd(Len(handed) + 1)

(* The buffer, with the retained state, holds a complete frame no longer   *)
(* than max_length: a whole object, a length prefix with its payload, or   *)
(* the payload of the length already read.                                 *)
CompleteFrameBuffered ==
    CASE format = "json_array" ->
           well_formed /\ NoEscapedBackslash /\ max_length = TestMaxObjLen
           /\ NextObjectBuffered
      [] format = "protobuf" ->
           IF AwaitingLength(cursor)
           THEN /\ buffer # <<>>
                /\ buffer[1] \in 1..(ContinuationBit - 1)
                /\ buffer[1] <= max_length
                /\ Len(buffer) >= 1 + buffer[1]
           ELSE U64Le(cursor.current_obj_len, max_length)
                /\ U64Le(cursor.current_obj_len, Len(buffer))
      [] format = "arrow" ->
           IF AwaitingLength(cursor)
           THEN \E m \in ArrowMessages :
                   /\ Len(m) <= max_length
                   /\ Len(buffer) >= Len(m)
                   /\ SubSeq(buffer, 1, Len(m)) = m
           ELSE U64Le(cursor.current_obj_len, max_length)
                /\ U64Le(cursor.current_obj_len, Len(buffer))

(* C13: a decode call of a framing decoder that finds a complete frame     *)
(* buffered returns that frame (hands it to the materializer) and does not *)
(* report await-more-input.                                                *)
C13_CompleteFrameIsReturned ==
    [][(DecodeCall /\ format \in FramingFormats /\ CompleteFrameBuffered)
          => (handed' # handed /\ (format # "arrow" => last' # "None"))]_vars

FramingDecodeCall == format \in FramingFormats /\ DecodeCall

(* Decoder states to call decode in: cursors in and out of a string, an    *)
(* escape and an object, and lengths awaited, small and large.             *)
JsonCursors ==
    [current_offset : {0, 3}, array_is_opened : BOOLEAN, delimiter_expected : BOOLEAN,
     quote_opened : BOOLEAN, escaped : BOOLEAN, opened_brackets : {0, 1, 2},
     current_obj_pos : {0, 1}]

LenCursors == {[current_obj_len |-> v] : v \in {U64Zero, U64FromInt(5), U64(0, 1, 0)}}

(* decode on an empty buffer, in each of those states, returns             *)
(* await-more-input with the state and the buffer as they were.            *)
EmptyBufferIsNoOp ==
    /\ \A c \in JsonCursors, oc \in OverflowChecks :
          JsonDecode(c, <<>>, max_length, oc) = DecodeResult("None", <<>>, c, <<>>, <<>>)
    /\ \A c \in LenCursors :
          ProtobufDecode(c, <<>>, max_length) = DecodeResult("None", <<>>, c, <<>>, <<>>)
    /\ \A c \in LenCursors, oc \in OverflowChecks, rec \in ArrowDecoderResults :
          ArrowDecode(c, <<>>, max_length, oc, rec) = DecodeResult("None", <<>>, c, <<>>, <<>>)

(* C15: a decode or decode_eof call of the JSON-Array, Protobuf or Arrow   *)
(* decoder on an empty buffer returns await-more-input and changes neither *)
(* the buffer nor any field of the decoder state, whatever that state is.  *)
C15_EmptyBufferIsNoOp ==
    [][(FramingDecodeCall /\ buffer = <<>>) =>
          /\ EmptyBufferIsNoOp
          /\ last' = "None"
          /\ buffer' = buffer
          /\ json_cursor' = json_cursor
          /\ cursor' = cursor
          /\ out' = out
          /\ handed' = handed]_vars

(* decode_eof ran on an empty buffer while a payload was awaited.          *)
C15_Witness ==
    /\ format = "protobuf"
    /\ status = "ended"
    /\ last = "None"
    /\ buffer = <<>>
    /\ ~AwaitingLength(cursor)

(* C16 as stated: a decode call that returns await-more-input leaves the   *)
(* buffer as it was.                                                       *)
C16_AwaitMoreLeavesBuffer ==
    [][(FramingDecodeCall /\ last' = "None") => buffer' = buffer]_vars

(* C16, amended: a decode call that returns await-more-input yields        *)
(* nothing; the JSON-Array decoder leaves the buffer as it was; the        *)
(* Protobuf decoder leaves it as it was while it awaits a payload, and     *)
(* takes the length prefix off it in the call that reads the prefix; the   *)
(* Arrow decoder leaves it as it was unless it fed a whole frame to the    *)
(* Arrow decoder, which had no batch to return.                            *)
C16_AwaitMoreConsumesOnlyPrefixes ==
    [][(FramingDecodeCall /\ last' = "None") =>
          /\ out' = out
          /\ CASE format = "json_array" -> buffer' = buffer /\ handed' = handed
               [] format = "protobuf" ->
                    /\ handed' = handed
                    /\ IF AwaitingLength(cursor)
                       THEN /\ (buffer # <<>> /\ buffer[1] < ContinuationBit)
                                  => buffer' = Tail(buffer)
                            /\ \/ buffer' = buffer /\ cursor' = cursor
                               \/ \E n \in 1..MaxVarintWidth :
                                     /\ n <= Len(buffer)
                                     /\ buffer[n] < ContinuationBit
                                     /\ \A j \in 1..(n - 1) : buffer[j] >= ContinuationBit
                                     /\ buffer' = SubSeq(buffer, n + 1, Len(buffer))
                       ELSE buffer' = buffer /\ cursor' = cursor
               [] format = "arrow" ->
                    IF handed' = handed
                    THEN buffer' = buffer
                    ELSE /\ ~AwaitingLength(cursor)
                         /\ handed' = Append(handed, handed'[Len(handed')])
                         /\ buffer = handed'[Len(handed')] \o buffer']_vars

(* The Protobuf decoder has taken a length prefix off the buffer and       *)
(* returned await-more-input: bytes are consumed, no frame has come out.   *)
C16_Witness ==
    /\ format = "protobuf"
    /\ last = "None"
    /\ ~AwaitingLength(cursor)
    /\ Consumed > 0
    /\ handed = <<>>

(* The per-frame state is neutral.                                         *)
Neutral ==
    CASE format = "json_array" ->
           /\ json_cursor.current_offset = 0
           /\ json_cursor.current_obj_pos = 0
           /\ json_cursor.opened_brackets = 0
           /\ ~json_cursor.quote_opened
           /\ ~json_cursor.escaped
      [] format \in {"protobuf", "arrow"} ->
           /\ cursor.current_obj_len.lo = 0
           /\ cursor.current_obj_len.mid = 0
           /\ cursor.current_obj_len.hi = 0

(* C17: right after a decode call that took a complete frame (returning    *)
(* its value, or the materializer's error), the per-frame state is         *)
(* neutral.                                                                *)
C17_StateResetAfterFrame ==
    [][(FramingDecodeCall /\ handed' # handed) =>
          /\ last' \in {"Some", CodecError, "None"}
          /\ Neutral']_vars

(* A JSON-Array call has returned a frame with bytes left in the buffer.   *)
C17_Witness ==
    /\ format = "json_array"
    /\ last = "Some"
    /\ buffer # <<>>
    /\ handed # <<>>

ProtobufDecodeCall == format = "protobuf" /\ DecodeCall

(* LEB128: the width of the varint at the head of bytes (0 when its first  *)
(* 10 bytes hold no byte without the continuation bit), its value as       *)
(* limbs (7 bits a byte, least significant group first), and whether it is *)
(* the canonical encoding of a 64-bit value.                               *)
VarintWidth(bytes) ==
    LET ends == {n \in 1..Min(Len(bytes), MaxVarintWidth) : bytes[n] < ContinuationBit}
    IN IF ends = {} THEN 0 ELSE CHOOSE n \in ends : \A m \in ends : n <= m

VarintGroup(bytes, j) == IF j <= VarintWidth(bytes) THEN bytes[j] % ContinuationBit ELSE 0

VarintValue(bytes) ==
    LET g(j) == VarintGroup(bytes, j)
    IN U64(g(1) + 128 * g(2) + 16384 * g(3) + 2097152 * g(4),
           g(5) + 128 * g(6) + 16384 * g(7) + 2097152 * g(8),
           g(9) + 128 * g(10))

CanonicalVarint(bytes) ==
    LET n == VarintWidth(bytes)
    IN /\ n > 0
       /\ n > 1 => bytes[n] # 0
       /\ n = MaxVarintWidth => bytes[n] <= 1

AwaitsACanonicalLength ==
    ProtobufDecodeCall /\ AwaitingLength(cursor) /\ CanonicalVarint(buffer)

LengthIsRead ==
    /\ cursor' = [current_obj_len |-> VarintValue(buffer)]
    /\ buffer' = SubSeq(buffer, VarintWidth(buffer) + 1, Len(buffer))
    /\ last' = "None"
    /\ out' = out

MalformedPrefix(bytes) ==
    /\ Len(bytes) >= MaxVarintWidth
    /\ \A j \in 1..(MaxVarintWidth - 1) : bytes[j] >= ContinuationBit
    /\ bytes[MaxVarintWidth] >= 2

(* C19: a decode or decode_eof call that awaits a length and finds a       *)
(* malformed 10-byte prefix buffered fails with CodecError.                *)
C19_MalformedVarintIsCodecError ==
    [][(ProtobufDecodeCall /\ AwaitingLength(cursor) /\ MalformedPrefix(buffer))
          => YieldsCodecError]_vars

(* The length awaited is the value of the varint that ends where the       *)
(* buffer starts in the source stream.                                     *)
DeclaredByPrecedingVarint ==
    (format = "protobuf" /\ ~AwaitingLength(cursor)) =>
       \E n \in 1..Min(Consumed, MaxVarintWidth) :
          LET e == SubSeq(input, Consumed - n + 1, Consumed)
          IN VarintWidth(e) = n /\ VarintValue(e) = cursor.current_obj_len

(* C20: every slice the Protobuf decoder hands to the materializer is the  *)
(* declared-length run of bytes right after the varint in the source       *)
(* stream, it is handed over only when that many bytes are buffered, and   *)
(* the call consumes those bytes and no more.                              *)
C20_PayloadFraming ==
    [][ProtobufDecodeCall =>
          LET declared == cursor.current_obj_len IN
          /\ DeclaredByPrecedingVarint'
          /\ handed' # handed =>
               /\ ~AwaitingLength(cursor)
               /\ declared.mid = 0 /\ declared.hi = 0
               /\ declared.lo <= Len(buffer)
               /\ handed' = Append(handed, SubSeq(input, Consumed + 1, Consumed + declared.lo))
               /\ Consumed' = Consumed + declared.lo
          /\ (~AwaitingLength(cursor) /\ U64Gt(declared, Len(buffer))) =>
               /\ handed' = handed
               /\ buffer' = buffer]_vars

(* Two payloads of different lengths have been handed over in turn.        *)
C20_Witness ==
    /\ format = "protobuf"
    /\ handed = << <<8>>, <<8, 1>> >>

(***************************************************************************)
(* Errors and the end of the sequence                                      *)
(***************************************************************************)
LastItem == out[Len(out)]

ErrorYielded == out # <<>> /\ ~IsOk(LastItem)

(* C21: for the JSON-Array, Protobuf and Arrow streams, once an error item *)
(* (codec, max-length or I/O error) is the last item yielded, the next     *)
(* poll ends the sequence and no item is ever added after it, whatever is  *)
(* still buffered.                                                         *)
C21_ErrorEndsTheSequence ==
    [][(format \in FramingFormats /\ ErrorYielded) =>
          /\ out' = out
          /\ status' = "ended"]_vars

(* An Arrow stream whose first message the arrow decoder refused, ended    *)
(* with the whole second message in the buffer.                            *)
C21_Witness ==
    /\ format = "arrow"
    /\ status = "ended"
    /\ out = <<ErrItem(CodecError, "ArrowError")>>
    /\ buffer \in ArrowMessages

(* serde_json refused a line that LinesCodec framed.                       *)
IsParseError(item) == item = ErrItem(CodecError, "serde_json::Error")

(* C22: in a JSON-Lines stream a line that is framed but does not          *)
(* deserialize yields a CodecError item which is the last item of the      *)
(* sequence: no item is produced for any later line.                       *)
C22_JsonNlParseErrorIsTerminal ==
    format = "json_nl" =>
        \A i \in 1..Len(out) : IsParseError(out[i]) => i = Len(out)

(***************************************************************************)
(* Lines of a body                                                         *)
(***************************************************************************)
(* The lines of a text: what stands between its newlines, and after the    *)
(* last one if anything does.                                              *)
RECURSIVE SplitLines(_)
SplitLines(bytes) ==
    IF bytes = <<>> THEN <<>>
    ELSE IF \A k \in 1..Len(bytes) : bytes[k] # Newline THEN <<bytes>>
    ELSE LET k == CHOOSE j \in 1..Len(bytes) :
                      bytes[j] = Newline /\ \A h \in 1..(j - 1) : bytes[h] # Newline
         IN <<SubSeq(bytes, 1, k - 1)>> \o SplitLines(SubSeq(bytes, k + 1, Len(bytes)))

(* The data lines: all lines, but the first one when it is the header.     *)
DataLines ==
    LET lines == SplitLines(input)
    IN IF with_csv_header /\ lines # <<>> THEN Tail(lines) ELSE lines

(* A line stream read to the end of a body whose lines LinesCodec frames:  *)
(* none is longer than max_length, and the transport did not fail.         *)
LinesReadToEnd ==
    /\ format \in LineFormats
    /\ well_formed
    /\ \A i \in 1..Len(SplitLines(input)) : Len(SplitLines(input)[i]) <= max_length
    /\ eof
    /\ status = "ended"

(* C23: in a CSV stream every data line yields exactly one item, in line   *)
(* order: the row when the line parses into T, one CodecError item when it *)
(* does not (the empty line included); the lines after a line that did not *)
(* parse are still emitted.                                                *)
C23_CsvBadRowIsNotFatal ==
    (format = "csv" /\ LinesReadToEnd) =>
        /\ Len(out) = Len(DataLines)
        /\ \A i \in 1..Len(out) :
              IF DataLines[i] \in CsvRows
              THEN out[i] = OkItem(DataLines[i])
              ELSE out[i].kind = CodecError

(* x and a,b without a header: a CodecError item, then the row.            *)
C23_Witness ==
    /\ format = "csv"
    /\ LinesReadToEnd
    /\ ~with_csv_header
    /\ out = <<ErrItem(CodecError, "csv::Error"), OkItem(<<97, 44, 98>>)>>

(* C24: with with_csv_header the first line of the body, however the       *)
(* chunks split it, never reaches the closure and yields no item, so a     *)
(* header line and N data lines yield N items; without it every line, the  *)
(* first included, is deserialized as data.                                *)
C24_CsvHeaderIsSkipped ==
    (format = "csv" /\ LinesReadToEnd) =>
        LET lines == SplitLines(input) IN
        IF with_csv_header
        THEN lines # <<>> =>
                /\ handed = Tail(lines)
                /\ Len(out) = Len(lines) - 1
        ELSE /\ handed = lines
             /\ Len(out) = Len(lines)

(* The header a,b and the data line c,d: the one item is the row c,d.      *)
C24_Witness ==
    /\ format = "csv"
    /\ LinesReadToEnd
    /\ with_csv_header
    /\ SplitLines(input) = << <<97, 44, 98>>, <<99, 44, 100>> >>
    /\ out = <<OkItem(<<99, 44, 100>>)>>

(* C25: no error is swallowed: whenever the framing decoder or the read    *)
(* from the transport has failed (FramedRead has has_errored set), the     *)
(* consumer has received that error as the latest item of the sequence.    *)
C25_NoErrorIsSwallowed ==
    has_errored => ErrorYielded

(* The step in which the read of the next chunk fails.                     *)
ReadFails == status = "running" /\ ~is_readable /\ ~has_errored /\ has_errored'

(* C26: in each of the five streams a failed read of the next chunk yields *)
(* an error item of kind InputOutputError.                                 *)
C26_ReadFailureIsInputOutputError ==
    [][ReadFails => (out' # out /\ out'[Len(out')].kind = InputOutputError)]_vars

(***************************************************************************)
(* End of input                                                            *)
(***************************************************************************)
(* decode of the JSON-Array, Protobuf or Arrow codec on the current buffer *)
(* and cursor.                                                             *)
FramingDecode(overflow_checks, maybe_record) ==
    CASE format = "json_array" -> JsonDecode(json_cursor, buffer, max_length, overflow_checks)
      [] format = "protobuf" -> ProtobufDecode(cursor, buffer, max_length)
      [] format = "arrow" ->
           ArrowDecode(cursor, buffer, max_length, overflow_checks, maybe_record)

(* C27: for the JSON-Array, Protobuf and Arrow decoders the call made at   *)
(* end of input (decode_eof) does what decode does on the same buffer and  *)
(* cursor, and when that is await-more-input the sequence ends there: no   *)
(* item, no error, whatever is left in the buffer.                         *)
C27_EndOfInputPolicy ==
    [][(FramingDecodeCall /\ eof) =>
          \E overflow_checks \in OverflowChecks, maybe_record \in MaybeRecords :
              LET r == FramingDecode(overflow_checks, maybe_record) IN
              /\ buffer' = r.buf
              /\ last' = IF r.outcome = "Err" THEN r.item.kind ELSE r.outcome
              /\ r.outcome = "None" =>
                    /\ out' = out
                    /\ ~has_errored'
                    /\ status' = "ended"]_vars

(* A Protobuf stream that ended with a part of a payload in the buffer, a  *)
(* JSON-Array stream that ended inside an object.                          *)
C27_Witness ==
    /\ status = "ended"
    /\ eof
    /\ last = "None"
    /\ buffer # <<>>
    /\ Kinds(out) \subseteq {"Ok"}
    /\ \/ format = "protobuf" /\ ~AwaitingLength(cursor)
       \/ format = "json_array" /\ json_cursor.opened_brackets > 0

(* A line stream that ended at end of input, no framing or transport error *)
(* before it.                                                              *)
LinesEndedAtEof ==
    /\ format \in LineFormats
    /\ status = "ended"
    /\ eof
    /\ last = "None"

(* The body does not end with a newline: its last line is unterminated.    *)
UnterminatedFinalLine == input # <<>> /\ input[Len(input)] # Newline

FinalLine == SplitLines(input)[Len(SplitLines(input))]

(* The final item is the one the closure makes of the final line (less a   *)
(* carriage return at its end).                                            *)
FinalLineIsFinalItem ==
    /\ out # <<>>
    /\ LastItem = MapFrame(format, OkItem(without_carriage_return(FinalLine)))
    /\ handed # <<>>
    /\ handed[Len(handed)] = without_carriage_return(FinalLine)

C29_ArrowUndecodedBytesAreBounded ==
    (format = "arrow" /\ out = <<>>) => Len(Concat(handed)) <= max_length

(* C30: a decode call of the Arrow codec that gets a record batch from the *)
(* Arrow decoder advances the buffer by exactly the bytes that decoder     *)
(* consumed; what it left unconsumed stays in the buffer for the next      *)
(* call.                                                                   *)
C30_ArrowAdvancesByConsumed ==
    [][(DecodeCall /\ format = "arrow" /\ last' = "Some") =>
          /\ Len(buffer) - Len(buffer') = Len(out'[Len(out')].val)
          /\ buffer' = Advance(buffer, Len(out'[Len(out')].val))]_vars

(***************************************************************************)
(* Bounds and arithmetic                                                   *)
(***************************************************************************)
(* C31: the JSON-Array bound counts an object's own bytes only: a          *)
(* well-formed array none of whose objects is longer than max_obj_len is   *)
(* never rejected with MaxLenReachedError, whatever stands before an       *)
(* object (the `[`, the `,`).                                              *)
C31_JsonBoundIsRelativeToObjectStart ==
    (/\ format = "json_array"
     /\ well_formed
     /\ \A k \in 1..Len(sent) : Len(sent[k]) <= max_length)
    => MaxLenReachedError \notin Kinds(out)

(* The number four little-endian bytes spell, for words below 2^31.        *)
WordValue(b) == b[1] + 256 * b[2] + 65536 * b[3] + 16777216 * b[4]

IsMarker(b) == b = <<255, 255, 255, 255>>

(* The word of an 8-byte prefix that declares the length: the second after *)
(* a continuation marker, else the first.                                  *)
LengthWord(buf) ==
    IF IsMarker(SubSeq(buf, 1, 4)) THEN SubSeq(buf, 5, 8) ELSE SubSeq(buf, 1, 4)

(* The size of the frame a prefix declares: the prefix and the declared    *)
(* length.                                                                 *)
DeclaredFrameSize(buf) ==
    WordValue(LengthWord(buf)) + (IF IsMarker(SubSeq(buf, 1, 4)) THEN 8 ELSE 4)

(* The declared length is far from the end of the u32 range.               *)
LengthWordFits(buf) == LengthWord(buf)[4] < 127

ArrowDecodeCall == DecodeCall /\ format = "arrow"

C33_BraceDepthNeverUnderflows ==
    format = "json_array" =>
        /\ status # "panicked"
        /\ json_cursor.opened_brackets >= 0

(* C34: the u32 additions of the Arrow decoder never overflow: whatever    *)
(* the two words at the head of the buffer, the call that reads them does  *)
(* not panic and leaves an expected frame size that is no smaller than the *)
(* prefix it includes (4 bytes, 8 after a continuation marker), so neither *)
(* 0 nor wrapped.                                                          *)
C34_ArrowFrameSizeFitsU32 ==
    [][(ArrowDecodeCall /\ AwaitingLength(cursor) /\ Len(buffer) >= LenPrefixWidth) =>
          /\ last' = "None"
          /\ U64Gt(cursor'.current_obj_len,
                   IF IsMarker(SubSeq(buffer, 1, 4)) THEN 7 ELSE 3)]_vars

(* How many bytes the step takes off the head of the buffer.               *)
TakenOff == Len(buffer) - Len(buffer')

(* The slice the step hands to serde_json lies within the buffer: it is    *)
(* the bytes from current_obj_pos through the closing brace, the last byte *)
(* the step takes off.                                                     *)
SliceInRange ==
    LET obj_slice == handed'[Len(handed')]
        end == TakenOff - 1
        current_obj_pos == TakenOff - Len(obj_slice)
    IN /\ 0 <= current_obj_pos
       /\ current_obj_pos <= end
       /\ end < Len(buffer)
       /\ buffer[end + 1] = RBrace
       /\ obj_slice = SubSeq(buffer, current_obj_pos + 1, end + 1)

C36_ConsumerReceivesEndOfSequence == <>(status = "ended")

(***************************************************************************)
(* decode_varint_slice as decode calls it                                  *)
(***************************************************************************)
(* How many bytes at the head of bytes have the continuation bit.          *)
RECURSIVE ContinuationRun(_)
ContinuationRun(bytes) ==
    IF bytes = <<>> \/ Head(bytes) < ContinuationBit THEN 0
    ELSE 1 + ContinuationRun(Tail(bytes))

(* The bytes the unrolled loop reads: through the first byte without the   *)
(* continuation bit, and ten at most.                                      *)
VarintBytesRead(bytes) == Min(MaxVarintWidth, ContinuationRun(bytes) + 1)

(* The step is a decode call that called decode_varint_slice: awaiting a   *)
(* length whose first byte has the continuation bit, it did not just wait. *)
CallsDecodeVarintSlice ==
    /\ ProtobufDecodeCall
    /\ AwaitingLength(cursor)
    /\ buffer # <<>>
    /\ buffer[1] >= ContinuationBit
    /\ (buffer' # buffer \/ last' # "None")

(* C37: whenever ProtobufLenPrefixCodec::decode calls decode_varint_slice, *)
(* the slice is non-empty and longer than 10 bytes or ends in a byte below *)
(* 0x80: neither assertion fails (no panic) and every byte the unrolled    *)
(* loop reads is within the slice.                                         *)
C37_VarintSlicePrecondition ==
    [][CallsDecodeVarintSlice =>
          /\ last' # "Panic"
          /\ Len(buffer) > MaxVarintWidth \/ buffer[Len(buffer)] < ContinuationBit
          /\ VarintBytesRead(buffer) <= Len(buffer)]_vars

(* A length of five bytes, 2^32 - 1, has been read.                        *)
C37_Witness ==
    /\ format = "protobuf"
    /\ Len(input) >= 5
    /\ SubSeq(input, 1, 5) = <<255, 255, 255, 255, 15>>
    /\ Consumed = 5
    /\ cursor.current_obj_len = U64(268435455, 15, 0)

====
